---- MODULE Spec2Model ----
(***************************************************************************)
(* Model of the content automation pipeline:                               *)
(*   pipeline/content_pipeline.py  ContentPipeline.run fans out one task   *)
(*                                 per supported platform and gathers      *)
(*   pipeline/claude_client.py     ClaudeClient._call_with_retry, the      *)
(*                                 bounded retry engine around the backend *)
(*   pipeline/validator.py         ContentValidator.validate               *)
(*                                                                         *)
(* The tasks run on one asyncio event loop: a task runs without            *)
(* interruption from one await to the next.  Each action below is one such *)
(* uninterrupted stretch of a task (or of run itself), started by the      *)
(* completion of the awaited backend call, sleep or publish.               *)
(*                                                                         *)
(* In _call_with_retry the "if attempt == MAX_RETRIES - 1" guards only the *)
(* raise; the backoff assignment and the sleeps are statements of the      *)
(* except blocks.                                                          *)
(***************************************************************************)
EXTENDS Integers, Sequences, FiniteSets, TLC

(***************************************************************************)
(* Bounds of the model.                                                    *)
(***************************************************************************)
\* longest config.platforms list explored
MaxPlatforms == 2
\* number of backend failures the environment injects in one run
MaxFaults == 3
\* most FABRICATION_MARKERS patterns matching one text handed to validate
MaxMarkers == 2
\* _truncate is applied to texts of up to MaxOver characters and of up to
\* MaxOver characters less or more than MAX_TWEET_LENGTH
MaxOver == 3
\* a second is JitterDen time units; random.uniform(0, 1) is drawn from the
\* two extremes of [0, 1) at that resolution
JitterDen == 4

(***************************************************************************)
(* Program constants.                                                      *)
(***************************************************************************)
SUPPORTED_PLATFORMS == <<"linkedin", "medium", "x">>

MAX_RETRIES == 3

FABRICATION_MARKERS == <<"once told me", "a mentee of mine", "I remember when",
                         "true story", "fun fact about me">>

MIN_CONTENT_CHARS == 50

MAX_TWEET_LENGTH == 280

Supported == {SUPPORTED_PLATFORMS[i] : i \in 1..Len(SUPPORTED_PLATFORMS)}

\* PLATFORM_MAX_CHARS.get(platform): 0 stands for None (no configured limit)
PLATFORM_MAX_CHARS(platform) ==
  CASE platform = "x" -> 280
    [] platform = "linkedin" -> 3000
    [] platform = "medium" -> 50000
    [] OTHER -> 0

(***************************************************************************)
(* Inputs: platform identifiers a configuration may name, texts the        *)
(* backend may produce, messages a backend APIError may carry.             *)
(***************************************************************************)
PlatformIds == Supported \cup {"bogus"}

\* a text is described by its length, the length of its strip() and the
\* indices of the FABRICATION_MARKERS patterns that re.search finds in it
Contents ==
  { [len |-> MAX_TWEET_LENGTH, stripped |-> MAX_TWEET_LENGTH, markers |-> {}],
    [len |-> MAX_TWEET_LENGTH + 1, stripped |-> MAX_TWEET_LENGTH + 1, markers |-> {}],
    [len |-> 300, stripped |-> 40,  markers |-> {2, 4}] }

\* None in the place of a text
NoContent == [len |-> -1, stripped |-> -1, markers |-> {}]

\* the texts validate is applied to on its own: lengths at and next to every
\* threshold of the checks, stripped lengths around the minimum, up to
\* MaxMarkers matching patterns (none in a text of whitespace), and None
BoundaryLengths ==
  {0, MIN_CONTENT_CHARS - 1, MIN_CONTENT_CHARS}
    \cup {PLATFORM_MAX_CHARS(p) + d : p \in Supported, d \in {0, 1}}

ValidatorTexts ==
  { [len |-> n, stripped |-> k, markers |-> M] :
      n \in BoundaryLengths,
      k \in {0, MIN_CONTENT_CHARS - 1, MIN_CONTENT_CHARS} \cup BoundaryLengths,
      M \in {S \in SUBSET (1..Len(FABRICATION_MARKERS)) : Cardinality(S) <= MaxMarkers} }

ValidatorContents ==
  {c \in ValidatorTexts : c.stripped <= c.len /\ (c.stripped = 0 => c.markers = {})}
    \cup {NoContent}

ApiMessages == {"overloaded", "bad gateway"}

Jitters == {0, JitterDen - 1}

Range(s) == {s[i] : i \in 1..Len(s)}

RECURSIVE SeqsUpTo(_, _)
SeqsUpTo(S, n) ==
  IF n = 0 THEN {<<>>}
  ELSE LET shorter == SeqsUpTo(S, n - 1)
       IN  shorter \cup {Append(s, e) : s \in {t \in shorter : Len(t) = n - 1}, e \in S}

\* the lists config.platforms is drawn from: at most n identifiers, repeated
\* or not, listed in the order of SUPPORTED_PLATFORMS with the unsupported
\* one last (the order of the list only fixes the order of the tasks dict)
ListOrder == SUPPORTED_PLATFORMS \o <<"bogus">>

PlatformLists(n) ==
  LET place(id) == CHOOSE i \in 1..Len(ListOrder) : ListOrder[i] = id
  IN  {s \in SeqsUpTo(PlatformIds, n) :
         \A i \in 1..(Len(s) - 1) : place(s[i]) <= place(s[i + 1])}

(***************************************************************************)
(* validator.py                                                            *)
(***************************************************************************)
Failure(check, pattern, platform, actual, limit) ==
  [check |-> check, pattern |-> pattern, platform |-> platform,
   actual |-> actual, limit |-> limit]

RECURSIVE FabricationFrom(_, _)
FabricationFrom(content, i) ==
  IF i > Len(FABRICATION_MARKERS) THEN <<>>
  ELSE (IF i \in content.markers
        THEN <<Failure("fabrication", FABRICATION_MARKERS[i], "", 0, 0)>>
        ELSE <<>>) \o FabricationFrom(content, i + 1)

_check_fabrication(content) == FabricationFrom(content, 1)

\* variant: >= in place of > in the comparison with the limit
_check_platform_limits_inclusive(content, platform) ==
  LET max_chars == PLATFORM_MAX_CHARS(platform)
  IN  IF max_chars # 0 /\ content.len >= max_chars
      THEN <<Failure("limit", "", platform, content.len, max_chars)>>
      ELSE <<>>

_check_platform_limits(content, platform) ==
  LET max_chars == PLATFORM_MAX_CHARS(platform)
  IN  IF max_chars # 0 /\ content.len > max_chars
      THEN <<Failure("limit", "", platform, content.len, max_chars)>>
      ELSE <<>>

\* if not content or len(content.strip()) < 50
_check_not_empty(content) ==
  IF content = NoContent \/ content.len = 0 \/ content.stripped < MIN_CONTENT_CHARS
  THEN <<Failure("empty", "", "", 0, 0)>>
  ELSE <<>>

\* what a call of validate ends with: a ValidationResult, or the exception
\* class named by raised
ValidationResult(passed, failures) ==
  [raised |-> "", passed |-> passed, failures |-> failures]

ValidationRaised(type) == [raised |-> type, passed |-> FALSE, failures |-> <<>>]

\* variant: validate returns at the first check that reports a failure
validate_short_circuit(content, platform) ==
  IF content = NoContent THEN ValidationRaised("TypeError")
  ELSE LET fabrication == _check_fabrication(content)
           limits == _check_platform_limits(content, platform)
           failures == IF fabrication # <<>> THEN fabrication
                       ELSE IF limits # <<>> THEN limits
                       ELSE _check_not_empty(content)
       IN  ValidationResult(Len(failures) = 0, failures)

\* _check_fabrication runs first: re.search(pattern, content, re.IGNORECASE)
\* raises TypeError when content is None; otherwise the three lists are
\* concatenated
validate(content, platform) ==
  IF content = NoContent THEN ValidationRaised("TypeError")
  ELSE LET failures == _check_fabrication(content)
                         \o _check_platform_limits(content, platform)
                         \o _check_not_empty(content)
       IN  ValidationResult(Len(failures) = 0, failures)

(***************************************************************************)
(* twitter_publisher.py: _truncate.  Here a text is the sequence of its    *)
(* characters.                                                             *)
(***************************************************************************)
\* the one character U+2026 (horizontal ellipsis)
ELLIPSIS == "U+2026"

TweetChars == {"a", " ", ELLIPSIS}

TweetLengths ==
  (0..MaxOver) \cup ((MAX_TWEET_LENGTH - MaxOver)..(MAX_TWEET_LENGTH + MaxOver))

\* the texts _truncate is applied to on its own: n characters, all the same
\* but possibly the last
TweetTexts ==
  { [i \in 1..n |-> IF i = n THEN last ELSE fill] :
      n \in TweetLengths, fill \in TweetChars, last \in TweetChars }

\* if len(content) <= self.MAX_TWEET_LENGTH
WithinTweetLength(length) == length <= MAX_TWEET_LENGTH

\* variant: the slice keeps MAX_TWEET_LENGTH characters
_truncate_keeping_max(content) ==
  IF WithinTweetLength(Len(content)) THEN content
  ELSE SubSeq(content, 1, MAX_TWEET_LENGTH) \o <<ELLIPSIS>>

\* content[: self.MAX_TWEET_LENGTH - 1] + "\u2026"
_truncate(content) ==
  IF WithinTweetLength(Len(content)) THEN content
  ELSE SubSeq(content, 1, MAX_TWEET_LENGTH - 1) \o <<ELLIPSIS>>

\* what the first stretch of the publisher's publish does with the text it is
\* handed: TwitterPublisher.publish calls _truncate, whose second branch is
\* taken for a text over MAX_TWEET_LENGTH; the other publishers post it as is
PublishBranch(platform, content) ==
  IF platform = "x" /\ ~WithinTweetLength(content.len) THEN "truncated" ELSE ""

(***************************************************************************)
(* claude_client.py: the retry policy                                      *)
(***************************************************************************)
\* variants of the last-attempt test: compared with the number of attempts
\* instead of the last index, and a test that never holds
IsLastAttemptOffByOne(attempt) == attempt = MAX_RETRIES

IsLastAttemptNever(attempt) == FALSE

\* if attempt == self.MAX_RETRIES - 1
IsLastAttempt(attempt) == attempt = MAX_RETRIES - 1

\* variant: 2 * attempt in place of 2 ** attempt
BackoffLinear(attempt, jitter) == (2 * attempt) * JitterDen + jitter

\* backoff = (2 ** attempt) + random.uniform(0, 1), in time units
Backoff(attempt, jitter) == (2 ^ attempt) * JitterDen + jitter

\* variant: the delay after an APIError grows like the rate-limit backoff
ApiErrorDelayExponential(attempt) == (2 ^ attempt) * JitterDen

\* await asyncio.sleep(1), in time units
ApiErrorDelay(attempt) == 1 * JitterDen

(***************************************************************************)
(* State                                                                   *)
(***************************************************************************)
VARIABLES
  config,    \* PipelineConfig: platforms (list) and dry_run
  runPc,     \* where run is: "created", "gathering", "returned", "raised",
             \*               "cancelled"
  tasks,     \* the keys of the tasks dict, in insertion order
  pc,        \* per platform: "none", "ready", "backend", "sleeping",
             \*               "publishing", "done"
  attempt,   \* per platform: the loop variable of _call_with_retry
  delay,     \* per platform: the argument of the asyncio.sleep in progress
  content,   \* per platform: the text generate returned
  events,    \* per platform: what the task did so far, in order
  outcome,   \* per platform: the value or exception the task ended with
  result,    \* the mapping run returned
  faults,    \* backend failures so far in this run
  finished,  \* history: the platforms whose tasks have ended, in the order they
             \* ended; kept only in the behaviours that start with finished.on
  vcall,     \* a call of validate on its own: its arguments and how it ended
  tcall      \* a call of _truncate on its own: its argument and what it returned

vars == <<config, runPc, tasks, pc, attempt, delay, content, events, outcome, result, faults,
          finished, vcall, tcall>>

(***************************************************************************)
(* content_pipeline.py: the outcome of one platform task.  gather returns  *)
(* either the task's return value (a status string) or the exception the   *)
(* task raised.                                                            *)
(***************************************************************************)
Outcome(kind, type, platform, failures, attempts, cause) ==
  [kind |-> kind, type |-> type, platform |-> platform,
   failures |-> failures, attempts |-> attempts, cause |-> cause]

NoOutcome == Outcome("none", "", "", <<>>, 0, "")

\* raise ContentGenerationError("Rate limit exceeded after max retries")
RateLimitExhausted(platform) ==
  Outcome("raised", "ContentGenerationError", platform, <<>>, 0, "Rate limit exceeded")

\* raise ContentGenerationError(f"API error after {self.MAX_RETRIES} attempts: {e}")
ApiErrorExhausted(platform, e) ==
  Outcome("raised", "ContentGenerationError", platform, <<>>, MAX_RETRIES, e)

\* raise ValueError(f"Validation failed for {platform}: {validation.failures}")
ValidationFailed(platform, failures) ==
  Outcome("raised", "ValueError", platform, failures, 0, "")

\* return f"[DRY RUN] Would publish to {platform}"
DryRunStatus(platform) == Outcome("returned", "dry_run", platform, <<>>, 0, "")

\* the status string the publisher's publish returned
PublishedStatus(platform) == Outcome("returned", "status", platform, <<>>, 0, "")

\* the exception a task ended with that the code does not construct itself
Raised(type, platform) == Outcome("raised", type, platform, <<>>, 0, "")

\* variant: the comprehension without its "if platform in SUPPORTED_PLATFORMS"
RECURSIVE TaskKeysUnfiltered(_)
TaskKeysUnfiltered(platforms) ==
  IF platforms = <<>> THEN <<>>
  ELSE LET front == TaskKeysUnfiltered(SubSeq(platforms, 1, Len(platforms) - 1))
           last == platforms[Len(platforms)]
       IN  IF last \notin Range(front) THEN Append(front, last) ELSE front

\* the keys of the dict comprehension in run: the supported entries of
\* config.platforms, each once, in the order of their first occurrence
RECURSIVE TaskKeys(_)
TaskKeys(platforms) ==
  IF platforms = <<>> THEN <<>>
  ELSE LET front == TaskKeys(SubSeq(platforms, 1, Len(platforms) - 1))
           last == platforms[Len(platforms)]
       IN  IF last \in Supported /\ last \notin Range(front)
           THEN Append(front, last)
           ELSE front

\* variant: gather without return_exceptions, which raises the first exception
GatherPropagating(keys, outs) ==
  [raised |-> \E i \in 1..Len(keys) : outs[keys[i]].kind = "raised",
   results |-> [i \in 1..Len(keys) |-> outs[keys[i]]]]

\* variant: the results are listed in the order in which the tasks ended
\* (as asyncio.as_completed would deliver them)
GatherCompletionOrder(keys, outs) ==
  [raised |-> FALSE,
   results |-> [i \in 1..Len(keys) |-> IF i <= Len(finished.order)
                                       THEN outs[finished.order[i]]
                                       ELSE outs[keys[i]]]]

\* asyncio.gather(*tasks.values(), return_exceptions=True): the outcomes in
\* the order of the awaitables, exceptions included as values
Gather(keys, outs) ==
  [raised |-> FALSE, results |-> [i \in 1..Len(keys) |-> outs[keys[i]]]]

\* variant: only the platforms whose task returned a status are kept
ZipReturned(keys, results) ==
  [k \in {keys[i] : i \in {j \in 1..Len(keys) : results[j].kind = "returned"}} |->
     results[CHOOSE i \in 1..Len(keys) : keys[i] = k]]

\* dict(zip(tasks.keys(), results))
Zip(keys, results) ==
  [k \in Range(keys) |-> results[CHOOSE i \in 1..Len(keys) : keys[i] = k]]

\* variants: the validation outcome is not tested; dry_run is not tested
StageIgnoringValidation(passed, dry_run) ==
  IF dry_run THEN "dry_run" ELSE "publish"

StageIgnoringDryRun(passed, dry_run) ==
  IF ~passed THEN "reject" ELSE "publish"

\* _generate_and_publish after validate: the raise, the dry-run return or the
\* publisher
\* variant: the dry-run test comes before the test of the validation
StageDryRunFirst(passed, dry_run) ==
  IF dry_run THEN "dry_run"
  ELSE IF ~passed THEN "reject"
  ELSE "publish"

StageAfterValidation(passed, dry_run) ==
  IF ~passed THEN "reject"
  ELSE IF dry_run THEN "dry_run"
  ELSE "publish"

\* _get_publisher: the lookup in the class table raises KeyError for a
\* platform it does not hold; MediumPublisher() and TwitterPublisher() read
\* os.environ[...] and raise KeyError when a credential is not set
_get_publisher(platform) ==
  IF platform \notin Supported THEN {"KeyError"}
  ELSE IF platform = "linkedin" THEN {"ok"}
  ELSE {"ok", "KeyError"}

\* an event of a task: its name, the attempt it belongs to and the message of
\* the exception where the code uses it
Ev(name, n) == [ev |-> name, n |-> n, info |-> ""]

EvInfo(name, n, info) == [ev |-> name, n |-> n, info |-> info]

\* no call of validate on its own is made during a run of the pipeline
NoCall == [state |-> "none", content |-> NoContent, platform |-> "",
           outcome |-> ValidationRaised("")]

\* the states in which a task waits at an await
Suspended == {"backend", "sleeping", "publishing"}

\* variant: the backoff is slept with time.sleep, which keeps the event loop
YieldsExceptSleep(waiting) == waiting # "sleeping"

\* await self.client.messages.create(...), await asyncio.sleep(...) and
\* await publisher.publish(content) all hand the event loop back while the
\* task waits
Yields(waiting) == TRUE

\* the event loop can run a step of p's task: no other task is waiting in a
\* call that keeps the loop
LoopFree(p) ==
  \A q \in PlatformIds \ {p} : pc[q] \in Suspended => Yields(pc[q])

\* no call of _truncate on its own is made during a run of the pipeline
NoTruncate == [state |-> "none", content |-> <<>>, returned |-> <<>>]

\* a pipeline constructed with a configuration, before run is called
Constructed ==
  /\ config \in [platforms : PlatformLists(MaxPlatforms), dry_run : BOOLEAN]
  /\ runPc = "created"
  /\ tasks = <<>>
  /\ pc = [p \in PlatformIds |-> "none"]
  /\ attempt = [p \in PlatformIds |-> 0]
  /\ delay = [p \in PlatformIds |-> 0]
  /\ content = [p \in PlatformIds |-> NoContent]
  /\ events = [p \in PlatformIds |-> <<>>]
  /\ outcome = [p \in PlatformIds |-> NoOutcome]
  /\ result = <<>>
  /\ faults = 0
  /\ vcall = NoCall
  /\ tcall = NoTruncate

Init ==
  /\ Constructed
  /\ finished = [on |-> FALSE, order |-> <<>>]

\* variant: a task that ends with an exception cancels the tasks still running
FinishCancellingSiblings(p, evs, out) ==
  LET hit == IF out.kind = "raised"
             THEN {q \in PlatformIds \ {p} : pc[q] \notin {"none", "done"}}
             ELSE {}
  IN  /\ pc' = [q \in PlatformIds |-> IF q \in hit \cup {p} THEN "done" ELSE pc[q]]
      /\ events' = [q \in PlatformIds |->
                      IF q = p THEN events[q] \o evs
                      ELSE IF q \in hit THEN Append(events[q], Ev("cancelled", 0))
                      ELSE events[q]]
      /\ outcome' = [q \in PlatformIds |->
                       IF q = p THEN out
                       ELSE IF q \in hit THEN Raised("CancelledError", q)
                       ELSE outcome[q]]
      /\ finished' = IF finished.on
                      THEN [finished EXCEPT !.order =
                              Append(@, p) \o SelectSeq(tasks, LAMBDA q : q \in hit)]
                      ELSE finished

\* the task of platform p ends with outcome out after doing evs
Finish(p, evs, out) ==
  /\ pc' = [pc EXCEPT ![p] = "done"]
  /\ events' = [events EXCEPT ![p] = @ \o evs]
  /\ outcome' = [outcome EXCEPT ![p] = out]
  /\ finished' = IF finished.on THEN [finished EXCEPT !.order = Append(@, p)]
                  ELSE finished

(***************************************************************************)
(* run, up to the await of gather: builds the tasks dict and hands the     *)
(* coroutines to gather, which schedules every one of them.                *)
(***************************************************************************)
RunStart ==
  /\ runPc = "created"
  /\ runPc' = "gathering"
  /\ tasks' = TaskKeys(config.platforms)
  /\ pc' = [p \in PlatformIds |-> IF p \in Range(TaskKeys(config.platforms))
                                THEN "ready" ELSE "none"]
  /\ UNCHANGED <<config, attempt, delay, content, events, outcome, result, faults, finished, vcall, tcall>>

(***************************************************************************)
(* _generate_and_publish up to its first await: generate builds the prompt *)
(* and _call_with_retry enters the loop with attempt 0 and calls the       *)
(* backend.                                                                *)
(***************************************************************************)
TaskStart(p) ==
  /\ runPc = "gathering"
  /\ pc[p] = "ready"
  /\ LoopFree(p)
  /\ pc' = [pc EXCEPT ![p] = "backend"]
  /\ attempt' = [attempt EXCEPT ![p] = 0]
  /\ events' = [events EXCEPT ![p] = Append(@, Ev("call", 0))]
  /\ UNCHANGED <<config, runPc, tasks, delay, content, outcome, result, faults, finished, vcall, tcall>>

(***************************************************************************)
(* The backend call returns text c: _call_with_retry and generate return   *)
(* it, the task validates it and then raises, returns the dry-run status,  *)
(* or constructs the publisher and awaits its publish.                     *)
(***************************************************************************)
BackendOk(p) ==
  /\ pc[p] = "backend"
  /\ LoopFree(p)
  /\ \E c \in Contents :
       LET validation == validate(c, p)
           stage == StageAfterValidation(validation.passed, config.dry_run)
           done == <<Ev("generated", attempt[p]), Ev("validate", 0)>>
       IN  /\ content' = [content EXCEPT ![p] = c]
           /\ IF stage = "reject"
              THEN Finish(p, done, ValidationFailed(p, validation.failures))
              ELSE IF stage = "dry_run"
              THEN Finish(p, done, DryRunStatus(p))
              ELSE \E made \in _get_publisher(p) :
                     IF made = "ok"
                     THEN /\ pc' = [pc EXCEPT ![p] = "publishing"]
                          /\ events' = [events EXCEPT ![p] =
                                          @ \o done \o <<Ev("construct", 0),
                                                      EvInfo("publish", 0,
                                                             PublishBranch(p, c))>>]
                          /\ UNCHANGED <<outcome, finished>>
                     ELSE Finish(p, done \o <<Ev("construct", 0)>>, Raised(made, p))
  /\ UNCHANGED <<config, runPc, tasks, attempt, delay, result, faults, vcall, tcall>>

(***************************************************************************)
(* The backend call raises RateLimitError.                                 *)
(***************************************************************************)
BackendRateLimit(p) ==
  /\ pc[p] = "backend"
  /\ LoopFree(p)
  /\ faults < MaxFaults
  /\ faults' = faults + 1
  /\ IF IsLastAttempt(attempt[p])
     THEN /\ Finish(p, <<Ev("RateLimitError", attempt[p])>>, RateLimitExhausted(p))
          /\ UNCHANGED delay
     ELSE \E jitter \in Jitters :
            /\ pc' = [pc EXCEPT ![p] = "sleeping"]
            /\ delay' = [delay EXCEPT ![p] = Backoff(attempt[p], jitter)]
            /\ events' = [events EXCEPT ![p] =
                            @ \o <<Ev("RateLimitError", attempt[p]),
                                   Ev("sleep", attempt[p])>>]
            /\ UNCHANGED <<outcome, finished>>
  /\ UNCHANGED <<config, runPc, tasks, attempt, content, result, vcall, tcall>>

(***************************************************************************)
(* The backend call raises an APIError that is not a RateLimitError, with  *)
(* message e.                                                              *)
(***************************************************************************)
BackendApiError(p) ==
  /\ pc[p] = "backend"
  /\ LoopFree(p)
  /\ faults < MaxFaults
  /\ faults' = faults + 1
  /\ \E e \in ApiMessages :
       IF IsLastAttempt(attempt[p])
       THEN /\ Finish(p, <<EvInfo("APIError", attempt[p], e)>>, ApiErrorExhausted(p, e))
            /\ UNCHANGED delay
       ELSE /\ pc' = [pc EXCEPT ![p] = "sleeping"]
            /\ delay' = [delay EXCEPT ![p] = ApiErrorDelay(attempt[p])]
            /\ events' = [events EXCEPT ![p] =
                            @ \o <<Ev("APIError", attempt[p]),
                                   Ev("sleep", attempt[p])>>]
            /\ UNCHANGED <<outcome, finished>>
  /\ UNCHANGED <<config, runPc, tasks, attempt, content, result, vcall, tcall>>

\* variant: a catch-all except clause that treats any other exception like an
\* APIError
BackendOtherRetried(p) ==
  /\ pc[p] = "backend"
  /\ LoopFree(p)
  /\ faults < MaxFaults
  /\ faults' = faults + 1
  /\ IF IsLastAttempt(attempt[p])
     THEN /\ Finish(p, <<Ev("OtherError", attempt[p])>>, ApiErrorExhausted(p, ""))
          /\ UNCHANGED delay
     ELSE /\ pc' = [pc EXCEPT ![p] = "sleeping"]
          /\ delay' = [delay EXCEPT ![p] = ApiErrorDelay(attempt[p])]
          /\ events' = [events EXCEPT ![p] =
                          @ \o <<Ev("OtherError", attempt[p]), Ev("sleep", attempt[p])>>]
          /\ UNCHANGED <<outcome, finished>>
  /\ UNCHANGED <<config, runPc, tasks, attempt, content, result, vcall, tcall>>

(***************************************************************************)
(* The backend call (or reading response.content[0].text) raises an        *)
(* exception of another class: no except clause matches and it leaves      *)
(* generate.                                                               *)
(***************************************************************************)
BackendOther(p) ==
  /\ pc[p] = "backend"
  /\ LoopFree(p)
  /\ faults < MaxFaults
  /\ faults' = faults + 1
  /\ Finish(p, <<Ev("OtherError", attempt[p])>>, Raised("Exception", p))
  /\ UNCHANGED <<config, runPc, tasks, attempt, delay, content, result, vcall, tcall>>

\* variant: a "while True" loop that never advances attempt
SleepReturnSameAttempt(p) ==
  /\ pc[p] = "sleeping"
  /\ LoopFree(p)
  /\ delay' = [delay EXCEPT ![p] = 0]
  /\ pc' = [pc EXCEPT ![p] = "backend"]
  /\ events' = [events EXCEPT ![p] = Append(@, Ev("call", attempt[p]))]
  /\ UNCHANGED <<config, runPc, tasks, attempt, content, outcome, result, faults, finished,
                 vcall, tcall>>

(***************************************************************************)
(* asyncio.sleep returns: the for loop takes its next value and calls the  *)
(* backend again; when range(MAX_RETRIES) is used up the loop ends,        *)
(* _call_with_retry returns None and validate(None, platform) raises       *)
(* TypeError in re.search.                                                 *)
(***************************************************************************)
SleepReturn(p) ==
  /\ pc[p] = "sleeping"
  /\ LoopFree(p)
  /\ delay' = [delay EXCEPT ![p] = 0]
  /\ attempt' = [attempt EXCEPT ![p] = @ + 1]
  /\ IF attempt[p] + 1 < MAX_RETRIES
     THEN /\ pc' = [pc EXCEPT ![p] = "backend"]
          /\ events' = [events EXCEPT ![p] = Append(@, Ev("call", attempt[p] + 1))]
          /\ UNCHANGED <<outcome, finished>>
     ELSE Finish(p, <<Ev("fallthrough", attempt[p]), Ev("validate", 0)>>,
                 Raised("TypeError", p))
  /\ UNCHANGED <<config, runPc, tasks, content, result, faults, vcall, tcall>>

(***************************************************************************)
(* publisher.publish(content) returns its status string, or raises the     *)
(* publisher's error.                                                      *)
(***************************************************************************)
PublishOk(p) ==
  /\ pc[p] = "publishing"
  /\ LoopFree(p)
  /\ Finish(p, <<Ev("published", 0)>>, PublishedStatus(p))
  /\ UNCHANGED <<config, runPc, tasks, attempt, delay, content, result, faults, vcall, tcall>>

\* variant: a failed publish is attempted again
PublishFailRetried(p) ==
  /\ pc[p] = "publishing"
  /\ LoopFree(p)
  /\ events' = [events EXCEPT ![p] = @ \o <<Ev("publish_failed", 0), Ev("publish", 0)>>]
  /\ UNCHANGED <<config, runPc, tasks, pc, attempt, delay, content, outcome, result, faults,
                 finished, vcall, tcall>>

PublishFail(p) ==
  /\ pc[p] = "publishing"
  /\ LoopFree(p)
  /\ Finish(p, <<Ev("publish_failed", 0)>>, Raised("PublisherError", p))
  /\ UNCHANGED <<config, runPc, tasks, attempt, delay, content, result, faults, vcall, tcall>>

(***************************************************************************)
(* Every task has finished: gather delivers the outcomes and run returns   *)
(* dict(zip(tasks.keys(), results)).                                       *)
(***************************************************************************)
RunReturn ==
  /\ runPc = "gathering"
  /\ \A p \in Range(tasks) : pc[p] = "done"
  /\ LET gathered == Gather(tasks, outcome)
     IN  IF gathered.raised
         THEN /\ runPc' = "raised"
              /\ UNCHANGED result
         ELSE /\ runPc' = "returned"
              /\ result' = Zip(tasks, gathered.results)
  /\ UNCHANGED <<config, tasks, pc, attempt, delay, content, events, outcome, faults, finished, vcall, tcall>>

Next ==
  \/ RunStart
  \/ \E p \in PlatformIds : TaskStart(p)
  \/ \E p \in PlatformIds : BackendOk(p)
  \/ \E p \in PlatformIds : BackendRateLimit(p)
  \/ \E p \in PlatformIds : BackendApiError(p)
  \/ \E p \in PlatformIds : BackendOther(p)
  \/ \E p \in PlatformIds : SleepReturn(p)
  \/ \E p \in PlatformIds : PublishOk(p)
  \/ \E p \in PlatformIds : PublishFail(p)
  \/ RunReturn

Spec == Init /\ [][Next]_vars

(***************************************************************************)
(* The host cancels the asyncio task that is running run while it awaits   *)
(* gather.  gather forwards the cancellation to every child that has not   *)
(* ended: CancelledError is thrown into the child at the await where it    *)
(* waits (or before its first step).  No except clause of _call_with_retry *)
(* or of the publishers matches it, no code of the pipeline catches it, so *)
(* each such task ends with it and the await of gather raises it in run:   *)
(* run has no handler and returns no mapping.                              *)
(***************************************************************************)
\* variant: a bare except in the retry loop takes the cancellation for a
\* failed call, so tasks waiting in _call_with_retry carry on
CancelCaughtByRetry ==
  /\ runPc = "gathering"
  /\ tasks # <<>>
  /\ runPc' = "cancelled"
  /\ LET hit == {p \in Range(tasks) : pc[p] \in {"ready", "publishing"}}
     IN  /\ pc' = [p \in PlatformIds |-> IF p \in hit THEN "done" ELSE pc[p]]
         /\ events' = [p \in PlatformIds |->
                         IF p \in hit THEN Append(events[p], Ev("cancelled", 0))
                         ELSE events[p]]
         /\ outcome' = [p \in PlatformIds |->
                          IF p \in hit THEN Raised("CancelledError", p) ELSE outcome[p]]
         /\ finished' = IF finished.on
                         THEN [finished EXCEPT !.order =
                                 @ \o SelectSeq(tasks, LAMBDA p : p \in hit)]
                         ELSE finished
  /\ UNCHANGED <<config, tasks, attempt, delay, content, result, faults, vcall, tcall>>

Cancel ==
  /\ runPc = "gathering"
  /\ tasks # <<>>
  /\ runPc' = "cancelled"
  /\ LET hit == {p \in Range(tasks) : pc[p] # "done"}
     IN  /\ pc' = [p \in PlatformIds |-> IF p \in hit THEN "done" ELSE pc[p]]
         /\ delay' = [p \in PlatformIds |-> IF p \in hit THEN 0 ELSE delay[p]]
         /\ events' = [p \in PlatformIds |->
                         IF p \in hit THEN Append(events[p], Ev("cancelled", 0))
                         ELSE events[p]]
         /\ outcome' = [p \in PlatformIds |->
                          IF p \in hit THEN Raised("CancelledError", p) ELSE outcome[p]]
         /\ finished' = IF finished.on
                         THEN [finished EXCEPT !.order =
                                 @ \o SelectSeq(tasks, LAMBDA p : p \in hit)]
                         ELSE finished
  /\ UNCHANGED <<config, tasks, attempt, content, result, faults, vcall, tcall>>

NextCancel ==
  \/ Next
  \/ Cancel

SpecCancel == Init /\ [][NextCancel]_vars

(***************************************************************************)
(* The retry engine on its own: runs with at most one platform, in which   *)
(* every backend call and every sleep that has been started returns (the   *)
(* backend call with a response or with an exception).                     *)
(***************************************************************************)
InitRetry ==
  /\ Init
  /\ Len(config.platforms) <= 1

BackendReturns(p) ==
  \/ BackendOk(p)
  \/ BackendRateLimit(p)
  \/ BackendApiError(p)
  \/ BackendOther(p)

SpecRetry ==
  /\ InitRetry
  /\ [][Next]_vars
  /\ \A p \in PlatformIds : WF_vars(BackendReturns(p)) /\ WF_vars(SleepReturn(p))

\* the same runs, with the order in which the tasks end recorded
InitCompletion ==
  /\ Constructed
  /\ finished = [on |-> TRUE, order |-> <<>>]

SpecCompletion == InitCompletion /\ [][Next]_vars

(***************************************************************************)
(* validate on its own: a validator is constructed and validate is called  *)
(* once with a text (or None) and a platform identifier; no pipeline runs. *)
(***************************************************************************)
InitValidator ==
  /\ config = [platforms |-> <<>>, dry_run |-> FALSE]
  /\ runPc = "created"
  /\ tasks = <<>>
  /\ pc = [p \in PlatformIds |-> "none"]
  /\ attempt = [p \in PlatformIds |-> 0]
  /\ delay = [p \in PlatformIds |-> 0]
  /\ content = [p \in PlatformIds |-> NoContent]
  /\ events = [p \in PlatformIds |-> <<>>]
  /\ outcome = [p \in PlatformIds |-> NoOutcome]
  /\ result = <<>>
  /\ faults = 0
  /\ finished = [on |-> FALSE, order |-> <<>>]
  /\ tcall = NoTruncate
  /\ vcall \in [state : {"called"}, content : ValidatorContents, platform : PlatformIds,
                 outcome : {ValidationRaised("")}]

ValidateCall ==
  /\ vcall.state = "called"
  /\ LET validation == validate(vcall.content, vcall.platform)
     IN  vcall' = [vcall EXCEPT !.state = IF validation.raised = "" THEN "returned"
                                         ELSE "raised",
                                !.outcome = validation]
  /\ UNCHANGED <<config, runPc, tasks, pc, attempt, delay, content, events, outcome,
                 result, faults, finished, tcall>>

NextValidator == ValidateCall

SpecValidator == InitValidator /\ [][NextValidator]_vars

(***************************************************************************)
(* The X publisher: either a run of the pipeline, in which publish is      *)
(* handed the text that passed validation, or one call of _truncate on its *)
(* own with a text of TweetTexts and a pipeline that names no platform.    *)
(***************************************************************************)
InitTweet ==
  \/ Init
  \/ /\ config = [platforms |-> <<>>, dry_run |-> FALSE]
     /\ runPc = "created"
     /\ tasks = <<>>
     /\ pc = [p \in PlatformIds |-> "none"]
     /\ attempt = [p \in PlatformIds |-> 0]
     /\ delay = [p \in PlatformIds |-> 0]
     /\ content = [p \in PlatformIds |-> NoContent]
     /\ events = [p \in PlatformIds |-> <<>>]
     /\ outcome = [p \in PlatformIds |-> NoOutcome]
     /\ result = <<>>
     /\ faults = 0
     /\ finished = [on |-> FALSE, order |-> <<>>]
     /\ vcall = NoCall
     /\ tcall \in [state : {"called"}, content : TweetTexts, returned : {<<>>}]

TruncateCall ==
  /\ tcall.state = "called"
  /\ tcall' = [tcall EXCEPT !.state = "returned", !.returned = _truncate(tcall.content)]
  /\ UNCHANGED <<config, runPc, tasks, pc, attempt, delay, content, events, outcome,
                 result, faults, finished, vcall>>

NextTweet ==
  \/ Next
  \/ TruncateCall

SpecTweet == InitTweet /\ [][NextTweet]_vars

(***************************************************************************)
(* Auxiliary definitions for the properties                                *)
(***************************************************************************)
\* the positions of the events named name in the log of p
Positions(p, name) == {i \in 1..Len(events[p]) : events[p][i].ev = name}

Count(p, name) == Cardinality(Positions(p, name))

LastEvent(p) == events[p][Len(events[p])]

\* the supported platforms the configuration asks for
Requested == {config.platforms[i] : i \in 1..Len(config.platforms)} \cap Supported

RunOver == runPc \in {"returned", "raised"}

RetryableFailures(p) == Positions(p, "RateLimitError") \cup Positions(p, "APIError")

GenerationFailed(p) ==
  /\ pc[p] = "done"
  /\ LastEvent(p).ev \in {"RateLimitError", "APIError", "OtherError"}

\* the outcome that the own log, text and configuration of a finished task
\* determine
OwnOutcome(p) ==
  LET last == LastEvent(p)
      validation == validate(content[p], p)
  IN  CASE last.ev = "RateLimitError" -> RateLimitExhausted(p)
        [] last.ev = "APIError" -> ApiErrorExhausted(p, last.info)
        [] last.ev = "OtherError" -> Raised("Exception", p)
        [] last.ev = "validate" /\ content[p] = NoContent -> Raised("TypeError", p)
        [] last.ev = "validate" /\ content[p] # NoContent /\ ~validation.passed ->
             ValidationFailed(p, validation.failures)
        [] last.ev = "validate" /\ content[p] # NoContent /\ validation.passed ->
             DryRunStatus(p)
        [] last.ev = "construct" -> Raised("KeyError", p)
        [] last.ev = "published" -> PublishedStatus(p)
        [] last.ev = "publish_failed" -> Raised("PublisherError", p)
        [] OTHER -> NoOutcome

(***************************************************************************)
(* C1: when run is over it has returned a mapping whose keys are exactly   *)
(* the requested platforms that are supported, each with the outcome of a  *)
(* finished task, whichever stage failed.                                  *)
(***************************************************************************)
C1_OneEntryPerSupportedPlatform ==
  RunOver =>
    /\ runPc = "returned"
    /\ DOMAIN result = Requested
    /\ \A p \in DOMAIN result : result[p].kind \in {"returned", "raised"}

\* a run with two supported platforms returned, one failed in generation and
\* one rejected by validation
C1_Witness ==
  /\ runPc = "returned"
  /\ Cardinality(Requested) = 2
  /\ \E p, q \in DOMAIN result :
       /\ result[p].type = "ContentGenerationError"
       /\ result[q].type = "ValueError"

(***************************************************************************)
(* C2: a configured platform outside the supported set never gets a task:  *)
(* nothing is generated, validated or published for it and it is never a   *)
(* key of the result.                                                      *)
(***************************************************************************)
C2_UnsupportedNeverRuns ==
  \A p \in PlatformIds \ Supported :
    /\ pc[p] = "none"
    /\ events[p] = <<>>
    /\ p \notin Range(tasks)
    /\ p \notin DOMAIN result

\* platforms [x, bogus] returned exactly the key x
C2_Witness ==
  /\ config.platforms = <<"x", "bogus">>
  /\ runPc = "returned"
  /\ DOMAIN result = {"x"}

(***************************************************************************)
(* C3: failure isolation.  When the task of p has failed, a sibling task q *)
(* is never ended by it: q finishes only through its own stages, with the  *)
(* outcome its own log and text determine, and that outcome is q's entry   *)
(* of the result.                                                          *)
(***************************************************************************)
C3_FailureIsolation ==
  \A p, q \in Range(tasks) :
    (p # q /\ outcome[p].kind = "raised") =>
      /\ pc[q] = "done" => outcome[q] = OwnOutcome(q)
      /\ pc[q] # "done" => outcome[q] = NoOutcome
      /\ RunOver => (runPc = "returned" /\ result[q] = OwnOutcome(q))

\* p failed in generation; q, which was retrying after a backend failure,
\* went on to be published, and run returned both outcomes
C3_Witness ==
  \E p, q \in Range(tasks) :
    /\ p # q
    /\ outcome[p].kind = "raised"
    /\ GenerationFailed(p)
    /\ Count(q, "sleep") > 0
    /\ runPc = "returned"
    /\ result[q] = PublishedStatus(q)

(***************************************************************************)
(* C4: run never raises because of a failure inside a platform task: every *)
(* exception of a task is that platform's entry of the complete mapping.   *)
(***************************************************************************)
C4_RunNeverRaises ==
  /\ runPc # "raised"
  /\ runPc = "returned" =>
       \A p \in Range(tasks) : p \in DOMAIN result /\ result[p] = outcome[p]

\* run returned although one task failed in construction of the publisher
\* and the other in publish
C4_Witness ==
  /\ runPc = "returned"
  /\ \E p, q \in DOMAIN result :
       /\ result[p] = Raised("KeyError", p)
       /\ result[q] = Raised("PublisherError", q)

(***************************************************************************)
(* C5: within a task the stages are sequential and gated: validate comes   *)
(* directly after generate returned, publish only after a validate that    *)
(* passed; after a failed generation nothing else happens, after a failed  *)
(* validation no publisher is built or invoked and the outcome carries the *)
(* validation failures.                                                    *)
(***************************************************************************)
C5_StagesGated ==
  \A p \in PlatformIds :
    LET validation == validate(content[p], p)
    IN  /\ \A i \in Positions(p, "validate") :
             i > 1 /\ events[p][i - 1].ev \in {"generated", "fallthrough"}
        /\ \A i \in Positions(p, "publish") :
             /\ \E j \in Positions(p, "validate") : j < i
             /\ content[p] # NoContent
             /\ validation.passed
        /\ GenerationFailed(p) =>
             /\ Positions(p, "validate") = {}
             /\ Positions(p, "construct") = {}
             /\ Positions(p, "publish") = {}
        /\ (content[p] # NoContent /\ ~validation.passed) =>
             /\ Positions(p, "construct") = {}
             /\ Positions(p, "publish") = {}
             /\ pc[p] = "done"
             /\ outcome[p] = ValidationFailed(p, validation.failures)

\* one task was rejected by validation without dry-run, another was published
C5_Witness ==
  /\ ~config.dry_run
  /\ \E p, q \in Range(tasks) :
       /\ content[p] # NoContent /\ ~validate(content[p], p).passed
       /\ pc[p] = "done"
       /\ Positions(q, "publish") # {}

(***************************************************************************)
(* C6: with dry_run no publisher is ever constructed or invoked; a task    *)
(* whose text passed validation ends with the would-publish status, one    *)
(* whose text failed validation with the validation rejection.             *)
(***************************************************************************)
C6_DryRunNeverPublishes ==
  config.dry_run =>
    \A p \in PlatformIds :
      /\ Positions(p, "construct") = {}
      /\ Positions(p, "publish") = {}
      /\ pc[p] # "publishing"
      /\ content[p] # NoContent =>
           /\ pc[p] = "done"
           /\ outcome[p] = IF validate(content[p], p).passed
                           THEN DryRunStatus(p)
                           ELSE ValidationFailed(p, validate(content[p], p).failures)
           /\ runPc = "returned" => result[p] = outcome[p]

\* a dry run returned with one would-publish status and one rejection
C6_Witness ==
  /\ config.dry_run
  /\ runPc = "returned"
  /\ \E p, q \in DOMAIN result :
       /\ result[p] = DryRunStatus(p)
       /\ result[q].type = "ValueError"

\* the attempts after which p slept, in order
SleepAttempts(p) ==
  LET sleeps == SelectSeq(events[p], LAMBDA e : e.ev = "sleep")
  IN  [i \in 1..Len(sleeps) |-> sleeps[i].n]

\* p is in the sleep that follows the failure named name
SleepingAfter(p, name) ==
  /\ pc[p] = "sleeping"
  /\ Len(events[p]) >= 2
  /\ events[p][Len(events[p]) - 1].ev = name

\* the attempts on which p got the failure named name
FailedAttempts(p, name) == {events[p][i].n : i \in Positions(p, name)}

(***************************************************************************)
(* C7: one generate makes at most MAX_RETRIES backend calls whatever the   *)
(* mix of rate-limit and API-error failures; when MAX_RETRIES attempts     *)
(* have failed, ContentGenerationError is raised at once and nothing       *)
(* follows the last failure.                                               *)
(***************************************************************************)
C7_AtMostMaxRetriesCalls ==
  \A p \in PlatformIds :
    /\ Count(p, "call") <= MAX_RETRIES
    /\ Cardinality(RetryableFailures(p)) <= MAX_RETRIES
    /\ Cardinality(RetryableFailures(p)) = MAX_RETRIES =>
         /\ pc[p] = "done"
         /\ outcome[p].kind = "raised"
         /\ outcome[p].type = "ContentGenerationError"
         /\ Len(events[p]) \in RetryableFailures(p)

\* a task used up its attempts on a mix of both failure classes
C7_Witness ==
  \E p \in Range(tasks) :
    /\ Cardinality(RetryableFailures(p)) = MAX_RETRIES
    /\ Positions(p, "RateLimitError") # {}
    /\ Positions(p, "APIError") # {}
    /\ Count(p, "call") = MAX_RETRIES
    /\ outcome[p].type = "ContentGenerationError"

(***************************************************************************)
(* C8: the sleep after a rate-limit failure on attempt n lasts 2^n seconds *)
(* plus a jitter in [0,1) and happens only for n < MAX_RETRIES - 1: the    *)
(* sleep after attempt 0 lasts [1,2) seconds, the one after attempt 1      *)
(* [2,3) seconds.  When attempts 0 and 1 are rate-limited and attempt 2    *)
(* succeeds, generate returns the text after exactly two sleeps, the one   *)
(* after attempt 0 and then the one after attempt 1.                       *)
(***************************************************************************)
C8_RateLimitBackoff ==
  \A p \in PlatformIds :
    /\ SleepingAfter(p, "RateLimitError") =>
         /\ attempt[p] < MAX_RETRIES - 1
         /\ LastEvent(p) = Ev("sleep", attempt[p])
         /\ (2 ^ attempt[p]) * JitterDen <= delay[p]
         /\ delay[p] < (2 ^ attempt[p] + 1) * JitterDen
         /\ attempt[p] = 0 => (1 * JitterDen <= delay[p] /\ delay[p] < 2 * JitterDen)
         /\ attempt[p] = 1 => (2 * JitterDen <= delay[p] /\ delay[p] < 3 * JitterDen)
    /\ pc[p] # "sleeping" => delay[p] = 0
    /\ (FailedAttempts(p, "RateLimitError") = {0, 1} /\ Positions(p, "generated") # {}) =>
         /\ content[p] \in Contents
         /\ \A i \in Positions(p, "generated") : events[p][i].n = 2
         /\ SleepAttempts(p) = <<0, 1>>

\* rate limits on attempts 0 and 1, each slept off, and text on attempt 2
C8_Witness ==
  \E p \in Range(tasks) :
    /\ FailedAttempts(p, "RateLimitError") = {0, 1}
    /\ Positions(p, "generated") # {}
    /\ SleepAttempts(p) = <<0, 1>>
    /\ content[p] \in Contents

(***************************************************************************)
(* C9: a failure on the last allowed attempt is never followed by a sleep: *)
(* with rate limits on all MAX_RETRIES attempts there are exactly          *)
(* MAX_RETRIES - 1 sleeps, each between two backend calls, and the         *)
(* ContentGenerationError follows the last failed call directly.           *)
(***************************************************************************)
C9_NoSleepAfterLastAttempt ==
  \A p \in PlatformIds :
    /\ \A i \in RetryableFailures(p) :
         events[p][i].n = MAX_RETRIES - 1 => i = Len(events[p])
    /\ Count(p, "RateLimitError") = MAX_RETRIES =>
         /\ Count(p, "sleep") = MAX_RETRIES - 1
         /\ \A i \in Positions(p, "sleep") :
              /\ \E j \in Positions(p, "call") : j < i
              /\ i < Len(events[p]) /\ events[p][i + 1].ev = "call"
         /\ LastEvent(p) = Ev("RateLimitError", MAX_RETRIES - 1)
         /\ events[p][Len(events[p]) - 1] = Ev("call", MAX_RETRIES - 1)
         /\ pc[p] = "done"
         /\ outcome[p] = RateLimitExhausted(p)

\* a task was rate-limited on every attempt
C9_Witness ==
  \E p \in Range(tasks) :
    /\ Count(p, "RateLimitError") = MAX_RETRIES
    /\ pc[p] = "done"

(***************************************************************************)
(* C10: after an APIError that is not on the last attempt the client       *)
(* sleeps exactly 1 second and calls the backend again with the next       *)
(* attempt; an APIError on the last attempt raises ContentGenerationError  *)
(* carrying the attempt count MAX_RETRIES and the message of that error.   *)
(***************************************************************************)
C10_ApiErrorFixedDelay ==
  \A p \in PlatformIds :
    \A i \in Positions(p, "APIError") :
      LET n == events[p][i].n
      IN  IF n = MAX_RETRIES - 1
          THEN /\ i = Len(events[p])
               /\ pc[p] = "done"
               /\ outcome[p].kind = "raised"
               /\ outcome[p].type = "ContentGenerationError"
               /\ outcome[p].attempts = MAX_RETRIES
               /\ events[p][i].info \in ApiMessages
               /\ outcome[p].cause = events[p][i].info
          ELSE /\ i < Len(events[p])
               /\ events[p][i + 1] = Ev("sleep", n)
               /\ i + 1 = Len(events[p]) =>
                    (pc[p] = "sleeping" /\ delay[p] = 1 * JitterDen)
               /\ i + 1 < Len(events[p]) => events[p][i + 2] = Ev("call", n + 1)

\* API errors on attempts 0 and 1 were each followed by a sleep and a call,
\* and the API error on the last attempt ended the task
C10_Witness ==
  \E p \in Range(tasks) :
    /\ FailedAttempts(p, "APIError") = {0, 1, 2}
    /\ outcome[p].cause = "bad gateway"

(***************************************************************************)
(* C11: a backend exception that is neither a RateLimitError nor an        *)
(* APIError leaves generate on the attempt where it occurs, whatever the   *)
(* attempt: no sleep and no backend call follows it, it is the outcome of  *)
(* that platform's task and its entry of the result, and the other tasks   *)
(* end with their own outcomes.                                            *)
(***************************************************************************)
C11_OtherExceptionPropagates ==
  \A p \in PlatformIds :
    \A i \in Positions(p, "OtherError") :
      /\ i = Len(events[p])
      /\ events[p][i - 1] = Ev("call", events[p][i].n)
      /\ events[p][i].n = attempt[p]
      /\ pc[p] = "done"
      /\ outcome[p] = Raised("Exception", p)
      /\ runPc = "returned" => result[p] = Raised("Exception", p)
      /\ \A q \in Range(tasks) \ {p} :
           /\ pc[q] = "done" => outcome[q] = OwnOutcome(q)
           /\ runPc = "returned" => result[q] = OwnOutcome(q)

\* the exception came on the second attempt, after a slept-off rate limit,
\* and the other platform of the run was published
C11_Witness ==
  \E p, q \in Range(tasks) :
    /\ p # q
    /\ Positions(p, "OtherError") # {}
    /\ attempt[p] = 1
    /\ Count(p, "sleep") = 1
    /\ runPc = "returned"
    /\ result[q] = PublishedStatus(q)

(***************************************************************************)
(* C12: validate runs the three checks without stopping at a failure.  Of  *)
(* the outcome it returns, passed is true exactly when the failure list is *)
(* empty, and the list holds one fabrication failure per matching pattern  *)
(* in the order of the pattern table, then the length failure if the text  *)
(* is over the platform's limit, then the emptiness failure if the text is *)
(* empty or too short, and nothing else.                                   *)
(***************************************************************************)
C12_AllChecksInOrder ==
  vcall.state = "returned" =>
    LET c == vcall.content
        failures == vcall.outcome.failures
        \* the place of a failure in the order fabrication (by pattern), length, emptiness
        place(f) == CASE f.check = "fabrication" ->
                           CHOOSE i \in 1..Len(FABRICATION_MARKERS) :
                             FABRICATION_MARKERS[i] = f.pattern
                      [] f.check = "limit" -> Len(FABRICATION_MARKERS) + 1
                      [] f.check = "empty" -> Len(FABRICATION_MARKERS) + 2
        over == PLATFORM_MAX_CHARS(vcall.platform) # 0
                  /\ c.len > PLATFORM_MAX_CHARS(vcall.platform)
        short == c.len = 0 \/ c.stripped < MIN_CONTENT_CHARS
    IN  /\ vcall.outcome.passed <=> failures = <<>>
        /\ \A i \in 1..Len(failures) :
             /\ failures[i].check \in {"fabrication", "limit", "empty"}
             /\ failures[i].check = "fabrication" =>
                  \E m \in c.markers : FABRICATION_MARKERS[m] = failures[i].pattern
        /\ \A i, j \in 1..Len(failures) : i < j => place(failures[i]) < place(failures[j])
        /\ \A m \in c.markers :
             \E i \in 1..Len(failures) :
               failures[i].check = "fabrication" /\ failures[i].pattern = FABRICATION_MARKERS[m]
        /\ over <=> \E i \in 1..Len(failures) : failures[i].check = "limit"
        /\ short <=> \E i \in 1..Len(failures) : failures[i].check = "empty"

\* a text with two matching patterns that is over the limit of x and too
\* short once stripped: four failures, of all three checks
C12_Witness ==
  /\ vcall.state = "returned"
  /\ vcall.platform = "x"
  /\ Cardinality(vcall.content.markers) = 2
  /\ vcall.content.len > PLATFORM_MAX_CHARS("x")
  /\ vcall.content.stripped = MIN_CONTENT_CHARS - 1
  /\ Len(vcall.outcome.failures) = 4
  /\ ~vcall.outcome.passed

(***************************************************************************)
(* C13: for a platform with a configured maximum L (x 280, linkedin 3000,  *)
(* medium 50000) validate reports a length failure exactly when the text   *)
(* is longer than L: none at length L, one at L + 1, and the failure       *)
(* carries the platform, the actual length and L.  For a platform without  *)
(* a configured maximum no length failure is ever reported.                *)
(***************************************************************************)
C13_LengthLimitExclusive ==
  vcall.state = "returned" =>
    LET L == [x |-> 280, linkedin |-> 3000, medium |-> 50000]
        platform == vcall.platform
        length == vcall.content.len
        reported == {i \in 1..Len(vcall.outcome.failures) :
                       vcall.outcome.failures[i].check = "limit"}
    IN  IF platform \in DOMAIN L
        THEN /\ Cardinality(reported) = (IF length > L[platform] THEN 1 ELSE 0)
             /\ \A i \in reported :
                  vcall.outcome.failures[i] =
                    Failure("limit", "", platform, length, L[platform])
        ELSE reported = {}

\* a text one character over the limit of x: one length failure with the
\* actual length and the limit
C13_Witness ==
  /\ vcall.state = "returned"
  /\ vcall.platform = "x"
  /\ vcall.content.len = 281
  /\ vcall.outcome.failures = <<Failure("limit", "", "x", 281, 280)>>

(***************************************************************************)
(* C14: for every platform, configured or not, validate called with a text *)
(* that is absent (None), empty, made of whitespace only or shorter than   *)
(* 50 characters once stripped returns an outcome, rather than raising,    *)
(* with passed false and exactly one emptiness failure in its list.        *)
(***************************************************************************)
C14_EmptinessAlwaysReported ==
  (/\ vcall.state \in {"returned", "raised"}
   /\ \/ vcall.content = NoContent
      \/ vcall.content.len = 0
      \/ vcall.content.stripped < 50)
    => /\ vcall.state = "returned"
       /\ ~vcall.outcome.passed
       /\ Cardinality({i \in 1..Len(vcall.outcome.failures) :
                         vcall.outcome.failures[i].check = "empty"}) = 1

(***************************************************************************)
(* C15: the orchestrator runs each stage of a platform at most once in a   *)
(* run: generate is entered at most once (its retry loop starts once, at   *)
(* attempt 0), at most one text is validated and no backend call follows   *)
(* the validation, publish is called at most once, and a finished task     *)
(* stays finished.  This holds also when config.platforms names the        *)
(* platform more than once; an unsupported identifier runs no stage.       *)
(***************************************************************************)
C15_NoStageRetried ==
  \A p \in PlatformIds :
    /\ Cardinality({i \in Positions(p, "call") : events[p][i].n = 0}) <= 1
    /\ Count(p, "generated") <= 1
    /\ Count(p, "validate") <= 1
    /\ Count(p, "construct") <= 1
    /\ Count(p, "publish") <= 1
    /\ \A i \in Positions(p, "validate"), j \in Positions(p, "call") : j < i
    /\ pc[p] = "done" => LastEvent(p).ev \notin {"call", "sleep", "publish"}
    /\ p \notin Requested => events[p] = <<>>

\* the configuration names one platform twice and its text was rejected by
\* validation: the run returned after one generate and no publish
C15_Witness ==
  \E p \in Supported :
    /\ config.platforms = <<p, p>>
    /\ runPc = "returned"
    /\ result[p].type = "ValueError"
    /\ Count(p, "call") = 1
    /\ Count(p, "publish") = 0

(***************************************************************************)
(* C16: every entry of the returned mapping is of exactly one kind, fixed  *)
(* by the first stage of the platform's task that failed: the publisher's  *)
(* status iff a text was generated, it passed validation, dry_run is false *)
(* and publish returned; the dry-run status iff a text was generated, it   *)
(* passed and dry_run is true; a validation rejection iff a text was       *)
(* generated and failed validation; a generation failure iff generate      *)
(* raised; a publish failure iff a text was generated, it passed, dry_run  *)
(* is false and the adapter raised (when it was constructed or in          *)
(* publish).                                                               *)
(***************************************************************************)
C16_KindByFirstFailingStage ==
  runPc = "returned" =>
    \A p \in DOMAIN result :
      LET r == result[p]
          generated == Count(p, "generated") = 1
          passed == generated /\ validate(content[p], p).passed
          publishReturned == Count(p, "published") = 1
          adapterRaised == LastEvent(p).ev \in {"construct", "publish_failed"}
          isStatus == r.kind = "returned" /\ r.type = "status"
          isDryRun == r.kind = "returned" /\ r.type = "dry_run"
          isRejection == r.kind = "raised" /\ r.type = "ValueError"
          isGenerationFailure ==
            r.kind = "raised" /\ r.type \in {"ContentGenerationError", "Exception"}
          isPublishFailure == r.kind = "raised" /\ r.type \in {"PublisherError", "KeyError"}
          kinds == <<isStatus, isDryRun, isRejection, isGenerationFailure, isPublishFailure>>
      IN  /\ isStatus <=> (passed /\ ~config.dry_run /\ publishReturned)
          /\ isDryRun <=> (passed /\ config.dry_run)
          /\ isRejection <=> (generated /\ ~passed)
          /\ isGenerationFailure <=> ~generated
          /\ isPublishFailure <=> (passed /\ ~config.dry_run /\ adapterRaised)
          /\ Cardinality({i \in 1..Len(kinds) : kinds[i]}) = 1

\* one run with a rejected text for one platform and a publish failure for
\* the other
C16_Witness ==
  \E p, q \in DOMAIN result :
    /\ runPc = "returned"
    /\ result[p].type = "ValueError"
    /\ result[q].type = "PublisherError"
    /\ Count(q, "generated") = 1

(***************************************************************************)
(* C17: the returned mapping does not depend on the order in which the     *)
(* tasks end: under each key p it holds the outcome of p's own task, the   *)
(* one that p's own log, text and the configuration determine, whatever    *)
(* the order of completion recorded in finished.                           *)
(***************************************************************************)
C17_ResultIndependentOfCompletionOrder ==
  runPc = "returned" =>
    /\ Range(finished.order) = Range(tasks)
    /\ \A p \in DOMAIN result :
         /\ result[p].platform = p
         /\ result[p] = OwnOutcome(p)

\* the second task of the dict ended first, and the two ended differently
C17_Witness ==
  /\ runPc = "returned"
  /\ Len(tasks) = 2
  /\ finished.order = <<tasks[2], tasks[1]>>
  /\ result[tasks[1]].type = "status"
  /\ result[tasks[2]].type = "ContentGenerationError"

(***************************************************************************)
(* C18: a task suspended in a backoff sleep, a backend call or a publish   *)
(* call does not hold up its siblings: while it waits, a sibling that has  *)
(* not started can start, and a sibling whose own backend call, sleep or   *)
(* publish completes can take the step that follows.                       *)
(***************************************************************************)
C18_SiblingsNotBlocked ==
  \A p, q \in Range(tasks) :
    (p # q /\ pc[p] \in Suspended) =>
      /\ pc[q] = "ready" => ENABLED TaskStart(q)
      /\ pc[q] = "backend" => ENABLED BackendOk(q)
      /\ pc[q] = "sleeping" => ENABLED SleepReturn(q)
      /\ pc[q] = "publishing" => ENABLED PublishOk(q)

\* one task is in its first backoff sleep and its sibling has been through
\* generate, validate and publish
C18_Witness ==
  \E p, q \in Range(tasks) :
    /\ p # q
    /\ pc[p] = "sleeping"
    /\ Count(p, "sleep") = 1
    /\ pc[q] = "done"
    /\ outcome[q] = PublishedStatus(q)
    /\ runPc = "gathering"

(***************************************************************************)
(* C19 as stated: once a run has been cancelled, no task of it retries or  *)
(* publishes any more, and the caller holds the partial mapping: one entry *)
(* for each task that had completed before the cancellation, with that     *)
(* task's outcome.                                                         *)
(***************************************************************************)
C19_CancelSurfacesPartialMapping ==
  runPc = "cancelled" =>
    LET completed == {p \in Range(tasks) : LastEvent(p).ev # "cancelled"}
    IN  /\ \A p \in Range(tasks) : pc[p] = "done"
        /\ DOMAIN result = completed
        /\ \A p \in completed : result[p] = outcome[p]

(***************************************************************************)
(* C19, amended: once a run has been cancelled, every task that was in     *)
(* flight has ended with CancelledError at the point where it waited, so   *)
(* no backend call, sleep or publish follows in any task; run itself ends  *)
(* with CancelledError and the caller receives no mapping, not even the    *)
(* outcomes of the tasks that had completed.                               *)
(***************************************************************************)
C19_CancelStopsTasksAndRaises ==
  runPc = "cancelled" =>
    /\ result = <<>>
    /\ \A p \in Range(tasks) :
         /\ pc[p] = "done"
         /\ delay[p] = 0
         /\ \A i \in Positions(p, "cancelled") :
              /\ i = Len(events[p])
              /\ outcome[p] = Raised("CancelledError", p)
         /\ Positions(p, "cancelled") = {} => outcome[p] = OwnOutcome(p)
    /\ ~ENABLED Next

\* cancelled while one task was in a backoff sleep and another had already
\* been published
C19_Witness ==
  \E p, q \in Range(tasks) :
    /\ runPc = "cancelled"
    /\ Len(events[p]) > 2
    /\ events[p][Len(events[p]) - 1].ev = "sleep"
    /\ LastEvent(p).ev = "cancelled"
    /\ outcome[q] = PublishedStatus(q)

(***************************************************************************)
(* C20: the retry engine moves Attempting(0) -> Waiting(0) ->              *)
(* Attempting(1) -> ... with the attempt index in 0..MAX_RETRIES - 1 and   *)
(* raised by exactly one at each retry and changed by nothing else; the    *)
(* loop never runs out of attempts and falls through without a value; and  *)
(* when every backend call and sleep returns, a _call_with_retry that has  *)
(* been entered eventually returns the text or raises.                     *)
(***************************************************************************)
C20_RetryEngineTerminates ==
  /\ [](\A p \in PlatformIds :
          /\ attempt[p] \in 0..(MAX_RETRIES - 1)
          /\ Positions(p, "fallthrough") = {}
          /\ pc[p] = "sleeping" => attempt[p] < MAX_RETRIES - 1)
  /\ [][\A p \in PlatformIds :
          IF pc[p] = "sleeping" /\ pc'[p] = "backend"
          THEN attempt'[p] = attempt[p] + 1
          ELSE attempt'[p] = attempt[p]]_vars
  /\ \A p \in PlatformIds :
       (pc[p] \in {"backend", "sleeping"})
         ~> (Count(p, "generated") = 1 \/ GenerationFailed(p))

\* the engine ended in Failed on the last attempt after waiting twice
C20_Witness ==
  \E p \in Supported :
    /\ attempt[p] = MAX_RETRIES - 1
    /\ Count(p, "sleep") = 2
    /\ GenerationFailed(p)
    /\ outcome[p].type = "ContentGenerationError"

(***************************************************************************)
(* C21: in every run the text handed to the X publisher has at most 280    *)
(* characters (a longer one is rejected by validation before publish), so  *)
(* publish never takes the truncating branch of _truncate; and _truncate   *)
(* returns a text of at most 280 characters unchanged and turns a longer   *)
(* one into exactly 280 characters: its first 279 followed by an ellipsis. *)
(***************************************************************************)
C21_XContentWithinTweetLength ==
  /\ \A i \in Positions("x", "publish") :
       /\ content["x"] # NoContent
       /\ content["x"].len <= 280
       /\ events["x"][i].info # "truncated"
  /\ tcall.state = "returned" =>
       IF Len(tcall.content) <= 280
       THEN tcall.returned = tcall.content
       ELSE /\ Len(tcall.returned) = 280
            /\ tcall.returned[280] = ELLIPSIS
            /\ \A i \in 1..279 : tcall.returned[i] = tcall.content[i]

\* a text of 281 characters came back as 280 characters ending in the
\* ellipsis
C21_Witness ==
  /\ tcall.state = "returned"
  /\ Len(tcall.content) = 281
  /\ tcall.content[281] = "a"
  /\ Len(tcall.returned) = 280
  /\ tcall.returned[280] = ELLIPSIS

====
